---------------------------- MODULE Spec2Model ----------------------------
(* Model of the YouTube search plugin (src/__init__.py): the entry          *)
(* normalizer, the icon fetcher run on a thread pool, and the query         *)
(* orchestrator Plugin.items, run for several queries on one instance.      *)
(*                                                                          *)
(* Strings are sequences of tokens; a token is a whitespace character or a  *)
(* chunk of non-whitespace text. URLs additionally use the tokens "/" and   *)
(* "?" where the code splits on them.                                       *)
EXTENDS Naturals, Sequences, FiniteSets

\* ------------------------------------------------------------------ bounds
\* Number of queries run one after the other on the plugin instance.
MaxQueries == 2
\* Longest batch of results handed to the normalizer on its own.
MaxBatch == 3

\* ------------------------------------------------------- program constants
\* range(50) of the debounce loop.
DebounceIters == 50
\* ThreadPoolExecutor(max_workers=10).
MAX_WORKERS == 10

\* ----------------------------------------------------------------- strings
None == [some |-> FALSE]
Some(v) == [some |-> TRUE, val |-> v]

Whitespace == {" ", "\t", "\n"}

RECURSIVE LStrip(_)
LStrip(s) ==
    IF s # <<>> /\ Head(s) \in Whitespace THEN LStrip(Tail(s)) ELSE s

RECURSIVE RStrip(_)
RStrip(s) ==
    IF s # <<>> /\ s[Len(s)] \in Whitespace
    THEN RStrip(SubSeq(s, 1, Len(s) - 1))
    ELSE s

\* A plausible slip: the query is used as typed.
StripIdentity(s) == s

\* str.strip()
Strip(s) == RStrip(LStrip(s))

RECURSIVE Concat(_)
\* ''.join(parts)
Concat(parts) ==
    IF parts = <<>> THEN <<>> ELSE Head(parts) \o Concat(Tail(parts))

RECURSIVE Join(_, _)
\* sep.join(parts)
Join(sep, parts) ==
    IF parts = <<>> THEN <<>>
    ELSE IF Len(parts) = 1 THEN parts[1]
    ELSE parts[1] \o sep \o Join(sep, Tail(parts))

\* Index of the first occurrence of token c in s, 0 when there is none.
IndexOf(s, c) ==
    IF \E i \in 1..Len(s) : s[i] = c
    THEN CHOOSE i \in 1..Len(s) : s[i] = c /\ \A j \in 1..(i - 1) : s[j] # c
    ELSE 0

\* s.split(c, 1)[0]
SplitFirst(s, c) ==
    IF IndexOf(s, c) = 0 THEN s ELSE SubSeq(s, 1, IndexOf(s, c) - 1)

RECURSIVE Split(_, _)
\* s.split(c)
Split(s, c) ==
    IF IndexOf(s, c) = 0 THEN <<s>>
    ELSE <<SubSeq(s, 1, IndexOf(s, c) - 1)>>
             \o Split(SubSeq(s, IndexOf(s, c) + 1, Len(s)), c)

\* ------------------------------------------------------------ text_from
\* Outcome of a call that may raise KeyError.
Ok(v) == [ok |-> TRUE, val |-> v]
KeyError(k) == [ok |-> FALSE, key |-> k]

RECURSIVE RunsText(_)
\* ''.join(str(v['text']) for v in runs), KeyError 'text' on a run without it
RunsText(runs) ==
    IF runs = <<>> THEN Ok(<<>>)
    ELSE IF "text" \notin DOMAIN Head(runs) THEN KeyError("text")
    ELSE LET rest == RunsText(Tail(runs))
         IN  IF rest.ok THEN Ok(Head(runs).text \o rest.val) ELSE rest

TextFrom(val) ==
    IF "runs" \notin DOMAIN val
    THEN IF "simpleText" \in DOMAIN val
         THEN Ok(Strip(val.simpleText))
         ELSE KeyError("simpleText")
    ELSE LET r == RunsText(val.runs)
         IN  IF r.ok THEN Ok(Strip(r.val)) ELSE r

\* ------------------------------------------------------ entry_to_item_data
\* ItemData(title, subtext, url, action_name, icon_url, icon_path)
ItemData(title, subtext, url, action_name, icon_url, icon_path) ==
    [title |-> title, subtext |-> subtext, url |-> url,
     action_name |-> action_name, icon_url |-> icon_url,
     icon_path |-> icon_path]

Sep == <<" ", "|", " ">>
BaseUrl == <<"https://www.youtube.com/">>

RECURSIVE OptionalTexts(_, _)
\* The chain of "if '<field>' in data: subtext.append(text_from(data[field]))".
OptionalTexts(data, fields) ==
    IF fields = <<>> THEN Ok(<<>>)
    ELSE IF Head(fields) \notin DOMAIN data
         THEN OptionalTexts(data, Tail(fields))
    ELSE LET t == TextFrom(data[Head(fields)])
         IN  IF ~t.ok THEN t
             ELSE LET rest == OptionalTexts(data, Tail(fields))
                  IN  IF rest.ok THEN Ok(<<t.val>> \o rest.val) ELSE rest

\* data['thumbnail']['thumbnails'][0]['url'].split('?', 1)[0], None when the
\* thumbnail list is empty.
VideoIconUrl(data) ==
    IF "thumbnail" \notin DOMAIN data THEN KeyError("thumbnail")
    ELSE IF "thumbnails" \notin DOMAIN data.thumbnail
         THEN KeyError("thumbnails")
    ELSE IF data.thumbnail.thumbnails = <<>> THEN Ok(None)
    ELSE IF "url" \notin DOMAIN data.thumbnail.thumbnails[1]
         THEN KeyError("url")
    ELSE Ok(Some(SplitFirst(data.thumbnail.thumbnails[1].url, "?")))

\* title = text_from(data['title'])
TitleOf(data) ==
    IF "title" \notin DOMAIN data THEN KeyError("title")
    ELSE TextFrom(data.title)

Item(rec) == [kind |-> "item", item |-> rec]
Skip == [kind |-> "none"]
Raise(k) == [kind |-> "raise", key |-> k]

VideoToItemData(data) ==
    IF "videoId" \notin DOMAIN data THEN Raise("videoId")
    ELSE LET texts == OptionalTexts(data,
                 <<"lengthText", "shortViewCountText", "publishedTimeText">>)
         IN  IF ~texts.ok THEN Raise(texts.key)
             ELSE LET icon == VideoIconUrl(data)
                  IN  IF ~icon.ok THEN Raise(icon.key)
                      ELSE LET title == TitleOf(data)
                           IN  IF ~title.ok THEN Raise(title.key)
                               ELSE Item(ItemData(
                                        title.val,
                                        Join(Sep, <<(<<"Video">>)>> \o texts.val),
                                        BaseUrl \o <<"watch?v=", data.videoId>>,
                                        "Watch on Youtube",
                                        icon.val,
                                        None))

ChannelToItemData(data) ==
    IF "channelId" \notin DOMAIN data THEN Raise("channelId")
    ELSE LET texts == OptionalTexts(data,
                 <<"videoCountText", "subscriberCountText">>)
         IN  IF ~texts.ok THEN Raise(texts.key)
             ELSE LET title == TitleOf(data)
                  IN  IF ~title.ok THEN Raise(title.key)
                      ELSE Item(ItemData(
                               title.val,
                               Join(Sep, <<(<<"Channel">>)>> \o texts.val),
                               BaseUrl \o <<"channel/", data.channelId>>,
                               "Show on Youtube",
                               None,
                               None))

EntryToItemData(type_, data) ==
    IF type_ = "videoRenderer" THEN VideoToItemData(data)
    ELSE IF type_ = "channelRenderer" THEN ChannelToItemData(data)
    ELSE Skip

\* --------------------------------------------------- results_to_items_data
\* critical(str(e)) and critical(json.dumps(result, indent=4)); "at" records
\* which entry of the batch was being normalized when the call was made.
KeyLog(k, at) == [kind |-> "key", key |-> k, at |-> at]
DumpLog(result, at) == [kind |-> "dump", result |-> result, at |-> at]

Step(results, i, j, acc) ==
    LET r == EntryToItemData(results[i][j].tag, results[i][j].data)
    IN  IF r.kind = "item"
        THEN [acc EXCEPT !.items_data = @ \o <<r.item>>]
        ELSE IF r.kind = "none" THEN acc
        ELSE [acc EXCEPT !.log = @ \o <<KeyLog(r.key, <<i, j>>),
                                        DumpLog(results[i], <<i, j>>)>>]

RECURSIVE NormalizeFrom(_, _, _, _)
\* The two nested loops, continued from entry j of result i with the
\* accumulated items and log.
NormalizeFrom(results, i, j, acc) ==
    IF i > Len(results) THEN acc
    ELSE IF j > Len(results[i]) THEN NormalizeFrom(results, i + 1, 1, acc)
    ELSE NormalizeFrom(results, i, j + 1, Step(results, i, j, acc))

RECURSIVE NormalizeFromAbort(_, _, _, _)
\* A slip in the handler: the try wraps the loops, so the first KeyError
\* ends the batch.
NormalizeFromAbort(results, i, j, acc) ==
    IF i > Len(results) THEN acc
    ELSE IF j > Len(results[i]) THEN NormalizeFromAbort(results, i + 1, 1, acc)
    ELSE IF EntryToItemData(results[i][j].tag, results[i][j].data).kind = "raise"
         THEN Step(results, i, j, acc)
    ELSE NormalizeFromAbort(results, i, j + 1, Step(results, i, j, acc))

ResultsToItemsDataAbort(results) ==
    NormalizeFromAbort(results, 1, 1, [items_data |-> <<>>, log |-> <<>>])

ResultsToItemsData(results) ==
    NormalizeFrom(results, 1, 1, [items_data |-> <<>>, log |-> <<>>])

\* ------------------------------------------------------------------ inputs
Text(s) == [simpleText |-> s]
Runs(parts) == [runs |-> [k \in 1..Len(parts) |-> [text |-> parts[k]]]]
ThumbUrl(id, file) ==
    <<"https:", "/", "/", "i.ytimg.com", "/", "vi", "/", id, "/", file>>
Thumbs(urls) == [thumbnails |-> [k \in 1..Len(urls) |-> [url |-> urls[k]]]]
Entry(tag, data) == <<[tag |-> tag, data |-> data]>>

VidA ==
    Entry("videoRenderer",
          [videoId |-> "v1", title |-> Text(<<" ", "Title", "\n">>),
           lengthText |-> Text(<<"3:21">>),
           thumbnail |-> Thumbs(<<ThumbUrl("v1", "hq.jpg") \o <<"?", "x=1">>>>)])
\* The same video listed again, with the thumbnail in another resolution.
VidA2 ==
    Entry("videoRenderer",
          [videoId |-> "v1", title |-> Text(<<"Title">>),
           publishedTimeText |-> Text(<<"1", " ", "day", " ", "ago">>),
           thumbnail |-> Thumbs(<<ThumbUrl("v1", "hq720.jpg")>>)])
VidB ==
    Entry("videoRenderer",
          [videoId |-> "v2", title |-> Runs(<<(<<"My", " ">>), <<"Video">>>>),
           shortViewCountText |-> Text(<<"1K", " ", "views">>),
           thumbnail |-> Thumbs(<<ThumbUrl("v2", "hq.jpg")>>)])
VidNoThumb ==
    Entry("videoRenderer",
          [videoId |-> "v3", title |-> Text(<<"Plain">>),
           thumbnail |-> Thumbs(<<>>)])
\* A thumbnail URL without any "/": split('/')[-2] raises IndexError.
VidFlatUrl ==
    Entry("videoRenderer",
          [videoId |-> "v4", title |-> Text(<<"Flat">>),
           thumbnail |-> Thumbs(<<(<<"thumb.jpg">>)>>)])
Chan ==
    Entry("channelRenderer",
          [channelId |-> "c1", title |-> Runs(<<(<<"My", " ">>), <<"Channel">>>>),
           subscriberCountText |-> Text(<<"1K", " ", "subscribers">>)])
Shelf == Entry("shelfRenderer", [title |-> Text(<<"Shelf">>)])
VidNoId ==
    Entry("videoRenderer",
          [title |-> Text(<<"NoId">>), thumbnail |-> Thumbs(<<>>)])
VidNoTitleNoThumb == Entry("videoRenderer", [videoId |-> "v5"])
ChanNoTitle == Entry("channelRenderer", [channelId |-> "c2"])
\* One result carrying two tags: a malformed video and a good channel.
TwoTags ==
    <<[tag |-> "videoRenderer", data |-> [title |-> Text(<<"x">>)]],
      [tag |-> "channelRenderer",
       data |-> [channelId |-> "c3", title |-> Text(<<"Third">>)]]>>
\* A title that is neither a run list nor a simple text.
VidBadTitle ==
    Entry("videoRenderer",
          [videoId |-> "v6", title |-> [accessibility |-> "x"],
           thumbnail |-> Thumbs(<<>>)])

\* Results the normalizer is checked on by itself.
EntryPool ==
    {VidA, VidB, VidNoThumb, Chan, Shelf, VidNoId, VidNoTitleNoThumb,
     ChanNoTitle, TwoTags, VidBadTitle}

RECURSIVE SeqsUpTo(_, _)
SeqsUpTo(S, n) ==
    IF n = 0 THEN {<<>>}
    ELSE LET shorter == SeqsUpTo(S, n - 1)
         IN  shorter \cup {Append(s, x) : s \in shorter, x \in S}

\* Query strings the host hands over.
Queries ==
    {<<>>, <<" ">>, <<"\t", " ", "\n">>, <<"cats">>,
     <<" ", "cats", " ", "dogs", "\n">>}

Section(results) == [itemSectionRenderer |-> [contents |-> results]]
\* Sections get() turns into an empty list.
OtherSection == [continuationItemRenderer |-> "token"]
BareSection == [itemSectionRenderer |-> [header |-> "h"]]

\* What the search GET can come back with: the request raising, HTML
\* without the embedded data, embedded data json.loads or the subscripts
\* reject, or the content sections of a parsed page.
Responses ==
    {[kind |-> "neterror"], [kind |-> "nomatch"], [kind |-> "malformed"],
     [kind |-> "page", contents |-> <<>>],
     [kind |-> "page",
      contents |-> <<Section(<<VidA, Shelf, VidNoId>>), OtherSection,
                     Section(<<Chan>>)>>],
     [kind |-> "page",
      contents |-> <<Section(<<VidA>>), BareSection, Section(<<VidA2>>)>>],
     [kind |-> "page",
      contents |-> <<Section(<<VidB, VidFlatUrl>>)>>],
     [kind |-> "page",
      contents |-> <<Section(<<VidA, VidB>>), Section(<<VidNoThumb>>)>>]}

\* ------------------------------------------------------------------- state
VARIABLES
    qnum,        \* number of queries started on the instance
    pc,          \* position of the running query inside Plugin.items
    ctx_query,   \* ctx.query
    isValid,     \* ctx.isValid, owned by the host
    query_str,   \* query_str
    polls,       \* iterations of the debounce loop done
    sawInvalid,  \* value of "not ctx.isValid" at the latest poll
    contents,    \* contents: the parsed content sections, None before the parse
    items_data,  \* items_data
    submitted,   \* number of e.submit calls made by the running query
    tasks,       \* work handed to thread pools: [q, i, st, url, path]
    files,       \* children of self.temp_dir: [name, q], q the writing query
    log,         \* calls of critical / info made by the running query
    dumps,       \* dump files written by the running query
    searchCalls, \* search GETs issued by the running query
    iconCalls,   \* thumbnail GETs issued by the running query
    purged,      \* whether the running query purged the scratch directory
    yielded,     \* batches yielded by the running query
    outcome,     \* how the running query left Plugin.items
    cancelAt,    \* position of the query when the host cancelled it
    prev,        \* how the previous query ended and what it left behind
    results      \* batch handed to results_to_items_data on its own

vars ==
    <<qnum, pc, ctx_query, isValid, query_str, polls, sawInvalid, contents,
      items_data, submitted, tasks, files, log, dumps, searchCalls, iconCalls,
      purged, yielded, outcome, cancelAt, prev, results>>

ICON_PATH == <<"icons/youtube.svg">>

Init ==
    /\ qnum = 0
    /\ pc = "Idle"
    /\ ctx_query = <<>>
    /\ isValid = TRUE
    /\ query_str = <<>>
    /\ polls = 0
    /\ sawInvalid = FALSE
    /\ contents = None
    /\ items_data = <<>>
    /\ submitted = 0
    /\ tasks = <<>>
    /\ files = {}
    /\ log = <<>>
    /\ dumps = 0
    /\ searchCalls = 0
    /\ iconCalls = 0
    /\ purged = FALSE
    /\ yielded = <<>>
    /\ outcome = "None"
    /\ cancelAt = "None"
    /\ prev = [outcome |-> "None", submitted |-> 0, records |-> 0, left |-> 0]
    /\ results = <<>>

Settled(t) == t.st \in {"done", "failed"}
Unsettled(t) == ~Settled(t)

\* ------------------------------------------------------------ Plugin.items
\* Where the generator goes after query_str = ctx.query.strip().
AfterStrip(qs) == IF qs = <<>> THEN "Ended" ELSE "Debouncing"

\* The host runs a new query: a fresh QueryContext and a fresh call of
\* items(), up to the emptiness test.
Start(q) ==
    /\ pc \in {"Idle", "Ended"}
    /\ qnum < MaxQueries
    /\ qnum' = qnum + 1
    /\ ctx_query' = q
    /\ isValid' = TRUE
    /\ query_str' = Strip(q)
    /\ pc' = AfterStrip(Strip(q))
    /\ outcome' = IF AfterStrip(Strip(q)) = "Ended" THEN "Empty" ELSE "None"
    /\ prev' = [outcome |-> outcome, submitted |-> submitted,
                 records |-> Len(items_data), left |-> Cardinality(files)]
    /\ polls' = 0
    /\ sawInvalid' = FALSE
    /\ contents' = None
    /\ items_data' = <<>>
    /\ submitted' = 0
    /\ tasks' = SelectSeq(tasks, Unsettled)
    /\ log' = <<>>
    /\ dumps' = 0
    /\ searchCalls' = 0
    /\ iconCalls' = 0
    /\ purged' = FALSE
    /\ yielded' = <<>>
    /\ cancelAt' = "None"
    /\ UNCHANGED <<files, results>>

\* The host invalidates the running query (the user typed on).
Cancel ==
    /\ pc \notin {"Idle", "Ended", "Norm", "NormDone"}
    /\ isValid
    /\ isValid' = FALSE
    /\ cancelAt' = pc
    /\ UNCHANGED <<qnum, pc, ctx_query, query_str, polls, sawInvalid, contents,
                   items_data, submitted, tasks, files, log, dumps,
                   searchCalls, iconCalls, purged, yielded, outcome, prev,
                   results>>

\* A slip: the poll's result is not acted on.
AfterPollIgnoring(invalid, n) ==
    IF n = DebounceIters THEN "Fetching" ELSE "Debouncing"

\* Where the debounce loop goes after its n-th sleep and poll.
AfterPoll(invalid, n) ==
    IF invalid THEN "Ended"
    ELSE IF n = DebounceIters THEN "Fetching" ELSE "Debouncing"

\* One iteration of "for _ in range(50)": sleep, then poll ctx.isValid.
DebouncePoll ==
    /\ pc = "Debouncing"
    /\ polls' = polls + 1
    /\ sawInvalid' = ~isValid
    /\ pc' = AfterPoll(~isValid, polls + 1)
    /\ outcome' = IF AfterPoll(~isValid, polls + 1) = "Ended"
                  THEN "Abandoned" ELSE outcome
    /\ UNCHANGED <<qnum, ctx_query, isValid, query_str, contents, items_data,
                   submitted, tasks, files, log, dumps, searchCalls,
                   iconCalls, purged, yielded, cancelAt, prev, results>>

InfoLog(qs) == [kind |-> "info", text |-> <<"Searching YouTube for">> \o qs]
NoDataLog == [kind |-> "critical", text |-> <<"Failed to receive expected data">>]
DumpedLog == [kind |-> "critical", text |-> <<"The HTML output has been dumped">>]
IssueLog == [kind |-> "critical", text |-> <<"please include the dump">>]
IssueUrlLog == [kind |-> "critical", text |-> <<"issues/new">>]

\* A slip: the failure is reported but the page is not written out.
LogHtmlNoDump(d) == d

\* log_html: the number of dump files after one more is written.
LogHtml(d) == d + 1

\* The search GET or the parse of the embedded data raises: the exception
\* leaves the generator.
FetchRaises ==
    /\ pc = "Fetching"
    /\ \E resp \in Responses : resp.kind \in {"neterror", "malformed"}
    /\ searchCalls' = searchCalls + 1
    /\ log' = Append(log, InfoLog(query_str))
    /\ pc' = "Ended"
    /\ outcome' = "Raised"
    /\ UNCHANGED <<qnum, ctx_query, isValid, query_str, polls, sawInvalid,
                   contents, items_data, submitted, tasks, files, dumps,
                   iconCalls, purged, yielded, cancelAt, prev, results>>

\* re.search finds nothing: report, dump the page, return.
FetchNoMatch ==
    /\ pc = "Fetching"
    /\ \E resp \in Responses : resp.kind = "nomatch"
    /\ searchCalls' = searchCalls + 1
    /\ dumps' = LogHtml(dumps)
    /\ log' = log \o <<InfoLog(query_str), NoDataLog, DumpedLog, IssueLog,
                       IssueUrlLog>>
    /\ pc' = "Ended"
    /\ outcome' = "NoMatch"
    /\ UNCHANGED <<qnum, ctx_query, isValid, query_str, polls, sawInvalid,
                   contents, items_data, submitted, tasks, files, iconCalls,
                   purged, yielded, cancelAt, prev, results>>

\* content_item.get('itemSectionRenderer', {}).get('contents', [])
SectionResults(sec) ==
    IF "itemSectionRenderer" \notin DOMAIN sec THEN <<>>
    ELSE IF "contents" \notin DOMAIN sec.itemSectionRenderer THEN <<>>
    ELSE sec.itemSectionRenderer.contents

RECURSIVE NormalizeSections(_, _, _)
\* for content_item in contents: items_data.extend(results_to_items_data(..))
NormalizeSections(secs, k, acc) ==
    IF k > Len(secs) THEN acc
    ELSE LET r == ResultsToItemsData(SectionResults(secs[k]))
         IN  NormalizeSections(secs, k + 1,
                 [items_data |-> acc.items_data \o r.items_data,
                  log |-> acc.log \o r.log])

\* The page parses: every section is normalized.
FetchPage ==
    /\ pc = "Fetching"
    /\ \E resp \in Responses :
          /\ resp.kind = "page"
          /\ LET n == NormalizeSections(resp.contents, 1,
                          [items_data |-> <<>>, log |-> <<>>])
             IN  /\ contents' = Some(resp.contents)
                 /\ items_data' = n.items_data
                 /\ log' = Append(log, InfoLog(query_str)) \o n.log
    /\ searchCalls' = searchCalls + 1
    /\ pc' = "Purging"
    /\ UNCHANGED <<qnum, ctx_query, isValid, query_str, polls, sawInvalid,
                   submitted, tasks, files, dumps, iconCalls, purged, yielded,
                   outcome, cancelAt, prev, results>>

\* A slip: the loop over the children unlinks nothing.
PurgeNothing(fs) == fs

\* for child in self.temp_dir.iterdir(): child.unlink()
PurgeDir(fs) == {}

Purge ==
    /\ pc = "Purging"
    /\ files' = PurgeDir(files)
    /\ purged' = TRUE
    /\ pc' = "Dispatching"
    /\ UNCHANGED <<qnum, ctx_query, isValid, query_str, polls, sawInvalid,
                   contents, items_data, submitted, tasks, dumps, log,
                   searchCalls, iconCalls, yielded, outcome, cancelAt, prev,
                   results>>

\* e.submit(download_item_icon, item_data, self.temp_dir) for the next
\* record, or the end of the for loop.
Dispatch ==
    /\ pc = "Dispatching"
    /\ IF submitted < Len(items_data)
       THEN /\ tasks' = Append(tasks, [q |-> qnum, i |-> submitted + 1,
                                       st |-> "queued",
                                       url |-> items_data[submitted + 1].icon_url,
                                       path |-> None])
            /\ submitted' = submitted + 1
            /\ pc' = "Checking"
       ELSE /\ pc' = "ExitEmit"
            /\ UNCHANGED <<tasks, submitted>>
    /\ UNCHANGED <<qnum, ctx_query, isValid, query_str, polls, sawInvalid,
                   contents, items_data, files, log, dumps, searchCalls,
                   iconCalls, purged, yielded, outcome, cancelAt, prev,
                   results>>

\* A slip: the flag is read but dispatching goes on.
AfterDispatchIgnoring(invalid) == "Dispatching"

\* "if not ctx.isValid: return" after a submit.
AfterDispatch(invalid) == IF invalid THEN "ExitAbandon" ELSE "Dispatching"

CheckAfterDispatch ==
    /\ pc = "Checking"
    /\ sawInvalid' = ~isValid
    /\ pc' = AfterDispatch(~isValid)
    /\ UNCHANGED <<qnum, ctx_query, isValid, query_str, polls, contents,
                   items_data, submitted, tasks, files, log, dumps,
                   searchCalls, iconCalls, purged, yielded, outcome, cancelAt,
                   prev, results>>

\* ------------------------------------------------------ download_item_icon
Writing(q) == {k \in 1..Len(tasks) : tasks[k].q = q /\ tasks[k].st = "writing"}

\* A worker of the task's pool is free to run it.
CanRun(k) ==
    /\ k \in 1..Len(tasks)
    /\ tasks[k].st = "queued"
    /\ Cardinality(Writing(tasks[k].q)) < MAX_WORKERS

\* temp_dir / f'{video_id}.png' with video_id = icon_url.split('/')[-2]
IconPath(url) ==
    LET segs == Split(url, "/") IN segs[Len(segs) - 1] \o <<".png">>

\* The record a task writes to, as long as its query is the running one.
SetIconPath(k, path) ==
    IF tasks[k].q = qnum
    THEN [items_data EXCEPT ![tasks[k].i].icon_path = path]
    ELSE items_data

\* "if item_data.icon_url is None: return"
DownloadNoUrl(k) ==
    /\ CanRun(k)
    /\ ~tasks[k].url.some
    /\ tasks' = [tasks EXCEPT ![k].st = "done"]
    /\ UNCHANGED <<qnum, pc, ctx_query, isValid, query_str, polls, sawInvalid,
                   contents, items_data, submitted, files, log, dumps,
                   searchCalls, iconCalls, purged, yielded, outcome, cancelAt,
                   prev, results>>

\* split('/')[-2] on a URL with fewer than two segments: IndexError, kept
\* by the future.
DownloadIndexError(k) ==
    /\ CanRun(k)
    /\ tasks[k].url.some
    /\ Len(Split(tasks[k].url.val, "/")) < 2
    /\ tasks' = [tasks EXCEPT ![k].st = "failed"]
    /\ UNCHANGED <<qnum, pc, ctx_query, isValid, query_str, polls, sawInvalid,
                   contents, items_data, submitted, files, log, dumps,
                   searchCalls, iconCalls, purged, yielded, outcome, cancelAt,
                   prev, results>>

\* icon_path is set, then the GET or the open of the output file raises:
\* the exception is kept by the future, which nobody reads.
DownloadOpenFails(k) ==
    /\ CanRun(k)
    /\ tasks[k].url.some
    /\ Len(Split(tasks[k].url.val, "/")) >= 2
    /\ tasks' = [tasks EXCEPT ![k].st = "failed",
                              ![k].path = Some(IconPath(tasks[k].url.val))]
    /\ items_data' = SetIconPath(k, Some(IconPath(tasks[k].url.val)))
    /\ iconCalls' = IF tasks[k].q = qnum THEN iconCalls + 1 ELSE iconCalls
    /\ UNCHANGED <<qnum, pc, ctx_query, isValid, query_str, polls, sawInvalid,
                   contents, submitted, files, log, dumps, searchCalls,
                   purged, yielded, outcome, cancelAt, prev, results>>

\* icon_path is set, the GET answers and the output file is opened 'wb'
\* (created or truncated); the write is still to come.
DownloadOpens(k) ==
    /\ CanRun(k)
    /\ tasks[k].url.some
    /\ Len(Split(tasks[k].url.val, "/")) >= 2
    /\ LET path == IconPath(tasks[k].url.val)
       IN  /\ tasks' = [tasks EXCEPT ![k].st = "writing", ![k].path = Some(path)]
           /\ items_data' = SetIconPath(k, Some(path))
           /\ files' = {f \in files : f.name # path}
                           \cup {[name |-> path, q |-> tasks[k].q]}
    /\ iconCalls' = IF tasks[k].q = qnum THEN iconCalls + 1 ELSE iconCalls
    /\ UNCHANGED <<qnum, pc, ctx_query, isValid, query_str, polls, sawInvalid,
                   contents, submitted, log, dumps, searchCalls, purged,
                   yielded, outcome, cancelAt, prev, results>>

\* sr.write(response.read()) completes and the file is closed.
DownloadWrites(k) ==
    /\ k \in 1..Len(tasks)
    /\ tasks[k].st = "writing"
    /\ tasks' = [tasks EXCEPT ![k].st = "done"]
    /\ UNCHANGED <<qnum, pc, ctx_query, isValid, query_str, polls, sawInvalid,
                   contents, items_data, submitted, files, log, dumps,
                   searchCalls, iconCalls, purged, yielded, outcome, cancelAt,
                   prev, results>>

\* response.read() or sr.write raises; the file stays as it is.
DownloadWriteFails(k) ==
    /\ k \in 1..Len(tasks)
    /\ tasks[k].st = "writing"
    /\ tasks' = [tasks EXCEPT ![k].st = "failed"]
    /\ UNCHANGED <<qnum, pc, ctx_query, isValid, query_str, polls, sawInvalid,
                   contents, items_data, submitted, files, log, dumps,
                   searchCalls, iconCalls, purged, yielded, outcome, cancelAt,
                   prev, results>>

\* ------------------------------------------------- leaving the with block
\* A slip: shutdown(wait=False), the block is left with downloads running.
PoolNoWait(q) == TRUE

\* ThreadPoolExecutor.__exit__ is shutdown(wait=True): it returns once every
\* submitted download of the pool has finished.
PoolJoined(q) == \A k \in 1..Len(tasks) : tasks[k].q = q => Settled(tasks[k])

\* "return" inside the with block, after the pool is joined.
ExitAbandon ==
    /\ pc = "ExitAbandon"
    /\ PoolJoined(qnum)
    /\ pc' = "Ended"
    /\ outcome' = "Abandoned"
    /\ UNCHANGED <<qnum, ctx_query, isValid, query_str, polls, sawInvalid,
                   contents, items_data, submitted, tasks, files, log, dumps,
                   searchCalls, iconCalls, purged, yielded, cancelAt, prev,
                   results>>

RECURSIVE Str(_)
\* str(i), as a sequence of digits
Str(i) ==
    LET digit == <<"0", "1", "2", "3", "4", "5", "6", "7", "8", "9">>
    IN  IF i < 10 THEN <<digit[i + 1]>>
        ELSE Str(i \div 10) \o <<digit[(i % 10) + 1]>>

\* StandardItem(id=str(i), text, subtext, icon_factory, actions)
StandardItem(i, d) ==
    [id |-> Str(i), text |-> d.title, subtext |-> d.subtext,
     icon |-> IF d.icon_path.some THEN d.icon_path.val ELSE ICON_PATH,
     actions |-> <<[id |-> "open", text |-> d.action_name, url |-> d.url],
                   [id |-> "copy", text |-> "Copy to clipboard",
                    clip |-> <<"[">> \o d.title \o <<"](">> \o d.url \o <<")">>]>>]

ShowMore(qs) ==
    [id |-> <<"show_more">>, text |-> <<"Show more in browser">>,
     subtext |-> <<>>, icon |-> ICON_PATH,
     actions |-> <<[id |-> "show_more", text |-> "Show more in browser",
                    url |-> BaseUrl \o <<"results?search_query=">> \o qs]>>]

\* A slip: the list is yielded without the trailing link.
BuildItemsNoMore(ds, qs) == [k \in 1..Len(ds) |-> StandardItem(k - 1, ds[k])]

\* The items list: one item per record, then the link to the browser.
BuildItems(ds, qs) ==
    [k \in 1..Len(ds) |-> StandardItem(k - 1, ds[k])] \o <<ShowMore(qs)>>

\* The for loop ends, the pool is joined, the items are built and yielded.
Emit ==
    /\ pc = "ExitEmit"
    /\ PoolJoined(qnum)
    /\ yielded' = Append(yielded, BuildItems(items_data, query_str))
    /\ pc' = "Ended"
    /\ outcome' = "Emitted"
    /\ UNCHANGED <<qnum, ctx_query, isValid, query_str, polls, sawInvalid,
                   contents, items_data, submitted, tasks, files, log, dumps,
                   searchCalls, iconCalls, purged, cancelAt, prev, results>>

TaskIds == 1..Len(tasks)

Next ==
    \/ \E q \in Queries : Start(q)
    \/ Cancel
    \/ DebouncePoll
    \/ FetchRaises
    \/ FetchNoMatch
    \/ FetchPage
    \/ Purge
    \/ Dispatch
    \/ CheckAfterDispatch
    \/ \E k \in TaskIds : DownloadNoUrl(k)
    \/ \E k \in TaskIds : DownloadIndexError(k)
    \/ \E k \in TaskIds : DownloadOpenFails(k)
    \/ \E k \in TaskIds : DownloadOpens(k)
    \/ \E k \in TaskIds : DownloadWrites(k)
    \/ \E k \in TaskIds : DownloadWriteFails(k)
    \/ ExitAbandon
    \/ Emit

Spec == Init /\ [][Next]_vars

\* ---------------------------------------- the normalizer checked by itself
InitNorm ==
    /\ qnum = 0
    /\ pc = "Norm"
    /\ ctx_query = <<>>
    /\ isValid = TRUE
    /\ query_str = <<>>
    /\ polls = 0
    /\ sawInvalid = FALSE
    /\ contents = None
    /\ items_data = <<>>
    /\ submitted = 0
    /\ tasks = <<>>
    /\ files = {}
    /\ log = <<>>
    /\ dumps = 0
    /\ searchCalls = 0
    /\ iconCalls = 0
    /\ purged = FALSE
    /\ yielded = <<>>
    /\ outcome = "None"
    /\ cancelAt = "None"
    /\ prev = [outcome |-> "None", submitted |-> 0, records |-> 0, left |-> 0]
    /\ results \in SeqsUpTo(EntryPool, MaxBatch)

\* items_data = results_to_items_data(results)
Normalize ==
    /\ pc = "Norm"
    /\ items_data' = ResultsToItemsData(results).items_data
    /\ log' = ResultsToItemsData(results).log
    /\ pc' = "NormDone"
    /\ UNCHANGED <<qnum, ctx_query, isValid, query_str, polls, sawInvalid,
                   contents, submitted, tasks, files, dumps, searchCalls,
                   iconCalls, purged, yielded, outcome, cancelAt, prev,
                   results>>

NextNorm == Normalize

SpecNorm == InitNorm /\ [][NextNorm]_vars

\* ============================================================== properties
Blank(q) == \A n \in 1..Len(q) : q[n] \in Whitespace
OwnTasks == {k \in 1..Len(tasks) : tasks[k].q = qnum}

\* C1: a query that is empty or all whitespace ends at once: it yields no
\* item, issues no search GET and no thumbnail GET, never sleeps in the
\* debounce loop, never purges the scratch directory and submits no download.
C1_BlankQueryDoesNothing ==
    (qnum > 0 /\ Blank(ctx_query)) =>
        /\ pc = "Ended"
        /\ outcome = "Empty"
        /\ yielded = <<>>
        /\ searchCalls = 0
        /\ iconCalls = 0
        /\ polls = 0
        /\ ~purged
        /\ OwnTasks = {}

\* A whitespace-only query has run after a query that emitted its items.
C1_Witness ==
    /\ qnum = 2
    /\ ctx_query = <<"\t", " ", "\n">>
    /\ pc = "Ended"
    /\ prev.outcome = "Emitted"
    /\ prev.left > 0

\* C2: no download dispatched by an earlier query is still queued or writing
\* once a later query has begun; in particular none is when the later query
\* is about to purge the scratch directory.
C2_PurgeAfterDownloadsSettled ==
    /\ \A k \in 1..Len(tasks) : tasks[k].q < qnum => Settled(tasks[k])
    /\ pc = "Purging" => \A k \in 1..Len(tasks) : Settled(tasks[k])

\* The second query is about to purge files left by a first query that was
\* cancelled before all its records were dispatched.
C2_Witness ==
    /\ qnum = 2
    /\ pc = "Purging"
    /\ prev.outcome = "Abandoned"
    /\ prev.submitted < prev.records
    /\ \E f \in files : f.q = 1

\* C3: when a query has emitted, every record whose download failed has no
\* local icon path and its item shows the bundled default icon.
C3_FailedDownloadUsesDefaultIcon ==
    (pc = "Ended" /\ outcome = "Emitted") =>
        \A k \in OwnTasks :
            tasks[k].st = "failed" =>
                /\ items_data[tasks[k].i].icon_path = None
                /\ yielded[1][tasks[k].i].icon = ICON_PATH

\* ---- C4
Recognized(tag) == tag \in {"videoRenderer", "channelRenderer"}
Required(tag) ==
    IF tag = "videoRenderer" THEN {"videoId", "title", "thumbnail"}
    ELSE IF tag = "channelRenderer" THEN {"channelId", "title"}
    ELSE {}
MissingRequired(e) == Required(e.tag) \ DOMAIN e.data
TextFields ==
    {"title", "lengthText", "shortViewCountText", "publishedTimeText",
     "videoCountText", "subscriberCountText"}
\* Every text field the entry carries is a run list or a simple text.
TextsWellShaped(e) ==
    \A f \in TextFields \cap DOMAIN e.data :
        "runs" \in DOMAIN e.data[f] \/ "simpleText" \in DOMAIN e.data[f]
WellFormed(e) ==
    Recognized(e.tag) /\ MissingRequired(e) = {} /\ TextsWellShaped(e)
\* The URL the table of recognized tags gives a well-formed entry.
ExpectedUrl(e) ==
    IF e.tag = "videoRenderer"
    THEN BaseUrl \o <<"watch?v=", e.data.videoId>>
    ELSE BaseUrl \o <<"channel/", e.data.channelId>>

RECURSIVE ExpectedUrls(_, _, _)
\* URLs of the well-formed entries of a batch, in the order of the batch.
ExpectedUrls(rs, i, j) ==
    IF i > Len(rs) THEN <<>>
    ELSE IF j > Len(rs[i]) THEN ExpectedUrls(rs, i + 1, 1)
    ELSE IF WellFormed(rs[i][j])
         THEN <<ExpectedUrl(rs[i][j])>> \o ExpectedUrls(rs, i, j + 1)
    ELSE ExpectedUrls(rs, i, j + 1)

LogAt(at, kind) == {n \in 1..Len(log) : log[n].at = at /\ log[n].kind = kind}

C5_NoMatchDumpsOnceAndEndsEmpty ==
    /\ outcome = "NoMatch" =>
          /\ pc = "Ended"
          /\ contents = None
          /\ items_data = <<>>
          /\ yielded = <<>>
          /\ searchCalls = 1
          /\ dumps = 1
          /\ \E n \in 1..Len(log) : log[n] = NoDataLog
    /\ outcome = "Abandoned" =>
          /\ dumps = 0
          /\ \A n \in 1..Len(log) : log[n] # NoDataLog

\* A second query ended on a page without the embedded data.
C5_Witness ==
    /\ qnum = 2
    /\ pc = "Ended"
    /\ outcome = "NoMatch"
    /\ dumps = 1

RECURSIVE PageUrls(_, _)
\* URLs of the well-formed entries of all sections from section k on.
PageUrls(secs, k) ==
    IF k > Len(secs) THEN <<>>
    ELSE ExpectedUrls(SectionResults(secs[k]), 1, 1) \o PageUrls(secs, k + 1)

\* C6: a query that yields has yielded exactly one batch and has ended; the
\* batch holds one item per well-formed entry of the page, in the order of
\* the entries across the sections, with ids 0, 1, ..., and one more item,
\* the link to the browser, last. A query that ended otherwise yielded
\* nothing.
C6_OneBatchInOrderThenShowMore ==
    /\ yielded # <<>> =>
          /\ Len(yielded) = 1
          /\ pc = "Ended"
          /\ outcome = "Emitted"
          /\ LET b == yielded[1]
                 urls == PageUrls(contents.val, 1)
             IN  /\ Len(b) = Len(urls) + 1
                 /\ Len(items_data) = Len(urls)
                 /\ \A n \in 1..Len(urls) :
                       /\ b[n].id = Str(n - 1)
                       /\ b[n].text = items_data[n].title
                       /\ b[n].actions[1].url = urls[n]
                 /\ b[Len(b)].id = <<"show_more">>
                 /\ b[Len(b)].text = <<"Show more in browser">>
    /\ outcome \in {"Empty", "Abandoned", "NoMatch", "Raised"} => yielded = <<>>

\* A page with a video, an unrecognized entry, a malformed video, a section
\* without results and a channel was emitted as three items.
C6_Witness ==
    /\ yielded # <<>>
    /\ Len(yielded[1]) = 3
    /\ Len(contents.val) = 3
    /\ \E n \in 1..Len(log) : log[n].kind = "key"

IconPhase == {"Dispatching", "Checking", "ExitEmit", "ExitAbandon"}

\* C7 as stated: a query cancelled at any moment of the icon-fetching phase
\* ends abandoned and yields nothing.
C7_AnyCancelInIconPhaseAbandons ==
    (pc = "Ended" /\ cancelAt \in IconPhase) =>
        outcome = "Abandoned" /\ yielded = <<>>

\* C7 amended: once a check that follows a dispatch has read the flag as
\* invalid, the query dispatches nothing more, joins the pool, ends abandoned
\* and yields nothing; a query past the purge whose checks never read the
\* flag as invalid ends by emitting its one batch.
C7_ObservedCancelAbandons ==
    /\ (purged /\ sawInvalid) =>
          /\ pc \in {"ExitAbandon", "Ended"}
          /\ yielded = <<>>
          /\ Cardinality(OwnTasks) = submitted
          /\ pc = "Ended" => outcome = "Abandoned"
    /\ (purged /\ ~sawInvalid /\ pc = "Ended") =>
          outcome = "Emitted" /\ Len(yielded) = 1

\* A query was abandoned after its first dispatch with records left over.
C7_Witness ==
    /\ purged
    /\ sawInvalid
    /\ pc = "Ended"
    /\ submitted >= 1
    /\ submitted < Len(items_data)

\* C8: a debounce poll that reads the flag as invalid ends the query at once,
\* abandoned, with nothing yielded and no search GET; the query is past the
\* debounce loop, and a search GET is issued, only after 50 polls.
C8_DebouncePolledFiftyTimes ==
    /\ polls <= DebounceIters
    /\ (~purged /\ sawInvalid) =>
          /\ pc = "Ended"
          /\ outcome = "Abandoned"
          /\ searchCalls = 0
          /\ yielded = <<>>
    /\ (pc \notin {"Idle", "Debouncing", "Ended", "Norm", "NormDone"}
            \/ searchCalls > 0) =>
          polls = DebounceIters

\* A query was abandoned by the 25th poll.
C8_Witness ==
    /\ pc = "Ended"
    /\ outcome = "Abandoned"
    /\ sawInvalid
    /\ polls = 25

\* C9: no two downloads that are writing at the same time write to the same
\* path of the scratch directory.
C9_DistinctDestinations ==
    \A k1, k2 \in 1..Len(tasks) :
        (k1 # k2 /\ tasks[k1].st = "writing" /\ tasks[k2].st = "writing")
            => tasks[k1].path # tasks[k2].path

\* C10 as stated: once a query has begun, the scratch directory holds no
\* file written by an earlier query.
C10_NoEarlierFilesOnceBegun ==
    qnum > 0 => \A f \in files : f.q = qnum

\* C10 amended: a query purges before it dispatches, and from its purge on
\* it finds only its own files in the scratch directory; a query that has not
\* purged removes no file.
C10_PurgedQueryOwnsFiles ==
    /\ [](pc \in IconPhase => purged)
    /\ [](purged => \A f \in files : f.q = qnum)
    /\ [][~purged' => files \subseteq files']_vars

\* The second query has purged what the first left and downloaded its own.
C10_Witness ==
    /\ qnum = 2
    /\ purged
    /\ prev.left > 0
    /\ files # {}
=============================================================================
